---------------------------- MODULE Spec2Model ----------------------------
(***************************************************************************)
(* A model of MarketingROIAnalyzer (src/roi_calculator.py).                *)
(*                                                                         *)
(* The analyzer object holds the loaded table df and the dictionary        *)
(* channel_metrics.  Its three computing methods are modelled as actions: *)
(* calculate_roi_metrics, identify_optimization_opportunities and          *)
(* generate_recommendations.  The variable ret holds what the last call    *)
(* gave back to its caller (the returned table, the raised exception and,  *)
(* for generate_recommendations, the figures it prints).                   *)
(*                                                                         *)
(* Numbers.  The columns of the pandas tables are float64.  A value is     *)
(* modelled as a record [k, n, d]: k = "fin" is the exact rational n/d in  *)
(* lowest terms with d > 0, and k = "nan", "inf", "ninf" are the IEEE-754  *)
(* special values that division by zero produces in numpy/pandas (no       *)
(* exception is raised there).  Rounding of finite results is abstracted:  *)
(* finite arithmetic is exact.  The sign of a zero is not modelled: every  *)
(* zero divisor in the code is a sum or a difference of values, which is   *)
(* +0.0 in round-to-nearest.                                               *)
(***************************************************************************)
EXTENDS Integers, Sequences, FiniteSets, TLC

VARIABLES df, channel_metrics, ret

vars == <<df, channel_metrics, ret>>

----------------------------------------------------------------------------
(* Bounds of the model *)

\* longest table df that Init loads
MaxRecords == 2

----------------------------------------------------------------------------
(* Program constants *)

\* the factor 100 of the percentages
Percent == 100

\* the default of the parameter budget
DefaultBudget == 100000

\* optimal_df.nlargest(3, 'ROI')
TopN == 3

\* optimal_df.nsmallest(2, 'ROI')
BottomN == 2

----------------------------------------------------------------------------
(* float64 values *)

Abs(x) == IF x < 0 THEN -x ELSE x

RECURSIVE GCD(_, _)
GCD(a, b) == IF b = 0 THEN a ELSE GCD(b, a % b)

\* the rational n/d (d # 0) in lowest terms with a positive denominator
Norm(n, d) ==
  LET g == GCD(Abs(n), Abs(d))
      s == IF d < 0 THEN -1 ELSE 1
  IN  [k |-> "fin", n |-> s * (n \div g), d |-> s * (d \div g)]

Fin(i) == [k |-> "fin", n |-> i, d |-> 1]
NaN == [k |-> "nan", n |-> 0, d |-> 1]
PosInf == [k |-> "inf", n |-> 0, d |-> 1]
NegInf == [k |-> "ninf", n |-> 0, d |-> 1]

IsFin(x) == x.k = "fin"
IsNaN(x) == x.k = "nan"

\* -1, 0 or 1; not defined for NaN
Sign(x) ==
  CASE x.k = "inf" -> 1
    [] x.k = "ninf" -> -1
    [] OTHER -> IF x.n > 0 THEN 1 ELSE IF x.n < 0 THEN -1 ELSE 0

InfOfSign(s) == IF s > 0 THEN PosInf ELSE NegInf

FNeg(x) ==
  CASE x.k = "fin" -> [x EXCEPT !.n = -x.n]
    [] x.k = "inf" -> NegInf
    [] x.k = "ninf" -> PosInf
    [] OTHER -> NaN

FAdd(x, y) ==
  CASE IsNaN(x) \/ IsNaN(y) -> NaN
    [] IsFin(x) /\ IsFin(y) ->
         LET g == GCD(x.d, y.d)
         IN  Norm(x.n * (y.d \div g) + y.n * (x.d \div g), x.d * (y.d \div g))
    [] IsFin(x) -> y
    [] IsFin(y) -> x
    [] OTHER -> IF x.k = y.k THEN x ELSE NaN

FSub(x, y) == FAdd(x, FNeg(y))

FMul(x, y) ==
  CASE IsNaN(x) \/ IsNaN(y) -> NaN
    [] IsFin(x) /\ IsFin(y) ->
         LET g1 == GCD(Abs(x.n), y.d)
             g2 == GCD(Abs(y.n), x.d)
         IN  Norm((x.n \div g1) * (y.n \div g2), (x.d \div g2) * (y.d \div g1))
    [] OTHER -> IF Sign(x) * Sign(y) = 0 THEN NaN
                ELSE InfOfSign(Sign(x) * Sign(y))

FDiv(x, y) ==
  CASE IsNaN(x) \/ IsNaN(y) -> NaN
    [] IsFin(x) /\ IsFin(y) ->
         IF y.n = 0
           THEN IF x.n = 0 THEN NaN ELSE InfOfSign(Sign(x))
           ELSE FMul(x, Norm(y.d, y.n))
    [] IsFin(x) -> Fin(0)
    [] IsFin(y) -> InfOfSign(Sign(x) * (IF Sign(y) < 0 THEN -1 ELSE 1))
    [] OTHER -> NaN

\* x > y on finite values
FGreater(x, y) == x.n * y.d > y.n * x.d

----------------------------------------------------------------------------
(* The loaded table *)

\* the channel identifiers, in ascending lexical order
ChannelNames == <<"Email", "Social">>

Channels == {ChannelNames[i] : i \in DOMAIN ChannelNames}

Row(c, s, r, cv, ck, im) ==
  [Channel |-> c, Spend |-> s, Revenue |-> r,
   Conversions |-> cv, Clicks |-> ck, Impressions |-> im]

\* <<Spend, Revenue>> of the rows that vary the money columns: zero spend,
\* a loss, break-even inputs, a profit, and a negative spend
MoneyValues == {<<0, 0>>, <<0, 2>>, <<1, -1>>, <<1, 0>>, <<1, 2>>, <<-1, 2>>}

MoneyRows == {Row(c, m[1], m[2], 1, 2, 3) : c \in Channels, m \in MoneyValues}

\* rows without conversions and clicks
ZeroCountRows == {Row(c, 1, 2, 0, 0, 3) : c \in Channels}

\* <<Conversions, Clicks, Impressions>> of the rows with a negative count
NegativeCounts == {<<-1, 2, 3>>, <<1, -1, 3>>, <<1, 2, -1>>}

NegativeCountRows ==
  {Row(ChannelNames[1], 1, 2, t[1], t[2], t[3]) : t \in NegativeCounts}

Rows == MoneyRows \cup ZeroCountRows \cup NegativeCountRows

Tables == UNION {[1..n -> Rows] : n \in 0..MaxRecords}

----------------------------------------------------------------------------
(* calculate_roi_metrics *)

\* self.df['Channel'].unique(): the channels in order of first appearance
RECURSIVE unique(_)
unique(t) ==
  IF t = <<>> THEN <<>>
  ELSE LET front == unique(SubSeq(t, 1, Len(t) - 1))
           c == t[Len(t)].Channel
       IN  IF \E i \in DOMAIN front : front[i] = c THEN front
           ELSE Append(front, c)

\* self.df[self.df['Channel'] == channel]
channel_data(t, channel) == SelectSeq(t, LAMBDA row : row.Channel = channel)

\* a total that keeps the last value of the column instead of adding it up
ColumnSumOverwritten(t, col) == IF t = <<>> THEN 0 ELSE t[Len(t)][col]

\* channel_data[col].sum()
RECURSIVE ColumnSum(_, _)
ColumnSum(t, col) ==
  IF t = <<>> THEN 0 ELSE t[1][col] + ColumnSum(Tail(t), col)

roi(total_revenue, total_spend) ==
  IF total_spend > 0
    THEN FMul(FDiv(Fin(total_revenue - total_spend), Fin(total_spend)),
              Fin(Percent))
    ELSE Fin(0)

cac(total_spend, total_conversions) ==
  IF total_conversions > 0
    THEN FDiv(Fin(total_spend), Fin(total_conversions))
    ELSE Fin(0)

conversion_rate(total_conversions, total_clicks) ==
  IF total_clicks > 0
    THEN FMul(FDiv(Fin(total_conversions), Fin(total_clicks)), Fin(Percent))
    ELSE Fin(0)

\* a romi that forgets to take the spend off the revenue
romiOfRevenue(total_revenue, total_spend) ==
  IF total_spend > 0
    THEN FDiv(Fin(total_revenue), Fin(total_spend))
    ELSE Fin(0)

romi(total_revenue, total_spend) ==
  IF total_spend > 0
    THEN FDiv(Fin(total_revenue - total_spend), Fin(total_spend))
    ELSE Fin(0)

\* results[channel]
ChannelResult(t, channel) ==
  LET data == channel_data(t, channel)
      total_spend == ColumnSum(data, "Spend")
      total_revenue == ColumnSum(data, "Revenue")
      total_conversions == ColumnSum(data, "Conversions")
      total_clicks == ColumnSum(data, "Clicks")
  IN  [Channel |-> channel,
       TotalSpend |-> total_spend,
       TotalRevenue |-> total_revenue,
       ROI |-> roi(total_revenue, total_spend),
       CAC |-> cac(total_spend, total_conversions),
       ConversionRate |-> conversion_rate(total_conversions, total_clicks),
       ROMI |-> romi(total_revenue, total_spend),
       Conversions |-> total_conversions,
       Clicks |-> total_clicks,
       Impressions |-> ColumnSum(data, "Impressions")]

\* the dictionary results, as the sequence of its entries in insertion order
results(t) ==
  LET u == unique(t) IN [i \in DOMAIN u |-> ChannelResult(t, u[i])]

calculate_roi_metrics ==
  /\ channel_metrics' = results(df)
  /\ ret' = [op |-> "calculate_roi_metrics", outcome |-> "returned",
             value |-> results(df)]
  /\ UNCHANGED df

----------------------------------------------------------------------------
(* identify_optimization_opportunities *)

\* Series.sum(): NaN entries are skipped (skipna=True)
RECURSIVE SeriesSum(_)
SeriesSum(s) ==
  IF s = <<>> THEN Fin(0)
  ELSE LET rest == SeriesSum(SubSeq(s, 1, Len(s) - 1))
           x == s[Len(s)]
       IN  IF IsNaN(x) THEN rest ELSE FAdd(rest, x)

Column(frame, col) == [i \in DOMAIN frame |-> frame[i][col]]

IntColumn(frame, col) == [i \in DOMAIN frame |-> Fin(frame[i][col])]

\* whether row a comes strictly before row b in the order of the column ROI
Before(a, b, ascending) ==
  IF ascending THEN FGreater(b.ROI, a.ROI) ELSE FGreater(a.ROI, b.ROI)

\* a row placed behind the rows of a sorted frame that do not come after it
InsertSorted(frame, row, ascending) ==
  LET k == Cardinality({i \in DOMAIN frame : ~Before(row, frame[i], ascending)})
  IN  SubSeq(frame, 1, k) \o <<row>> \o SubSeq(frame, k + 1, Len(frame))

\* rows of equal ROI keep their order (numpy sorts a table of at most 16
\* rows by insertion; nlargest and nsmallest keep the first occurrence)
RECURSIVE StableSort(_, _)
StableSort(frame, ascending) ==
  IF frame = <<>> THEN <<>>
  ELSE InsertSorted(StableSort(SubSeq(frame, 1, Len(frame) - 1), ascending),
                    frame[Len(frame)], ascending)

\* sort_values('ROI', ascending=False)
sort_values(frame) == StableSort(frame, FALSE)

\* an allocation that takes ROI as a percentage of the budget, not as a
\* share of the ROI total
OptimalAllocationOfPercent(row_roi, total_roi, budget) ==
  FMul(FDiv(row_roi, Fin(Percent)), Fin(budget))

OptimalAllocation(row_roi, total_roi, budget) ==
  FMul(FDiv(row_roi, total_roi), Fin(budget))

ExpectedRevenue(optimal_allocation, total_spend, total_revenue) ==
  FMul(FDiv(optimal_allocation, Fin(total_spend)), Fin(total_revenue))

RevenueIncrease(expected_revenue, current_revenue) ==
  FSub(expected_revenue, Fin(current_revenue))

PlanRow(row, total_roi, budget) ==
  LET alloc == OptimalAllocation(row.ROI, total_roi, budget)
      expected == ExpectedRevenue(alloc, row.TotalSpend, row.TotalRevenue)
  IN  [Channel |-> row.Channel,
       TotalSpend |-> row.TotalSpend,
       TotalRevenue |-> row.TotalRevenue,
       ROI |-> row.ROI,
       CAC |-> row.CAC,
       OptimalAllocation |-> alloc,
       CurrentRevenue |-> row.TotalRevenue,
       ExpectedRevenue |-> expected,
       RevenueIncrease |-> RevenueIncrease(expected, row.TotalRevenue)]

\* the table the method returns for a non-empty dictionary
OptimalFrame(metrics, budget) ==
  LET metrics_df == sort_values(metrics)
      total_roi == SeriesSum(Column(metrics_df, "ROI"))
  IN  [i \in DOMAIN metrics_df |-> PlanRow(metrics_df[i], total_roi, budget)]

\* an empty dictionary gives a table without columns: sort_values('ROI')
\* raises KeyError
OptimizeOutcome(metrics) == IF metrics = <<>> THEN "KeyError" ELSE "returned"

OptimizeValue(metrics, budget) ==
  IF metrics = <<>> THEN <<>> ELSE OptimalFrame(metrics, budget)

Budgets == {10, DefaultBudget}

identify_optimization_opportunities(budget) ==
  /\ ret' = [op |-> "identify_optimization_opportunities",
             outcome |-> OptimizeOutcome(channel_metrics),
             budget |-> budget,
             value |-> OptimizeValue(channel_metrics, budget)]
  /\ UNCHANGED <<df, channel_metrics>>

----------------------------------------------------------------------------
(* generate_recommendations *)

FirstRows(frame, n) == SubSeq(frame, 1, IF Len(frame) < n THEN Len(frame) ELSE n)

\* nlargest(n, 'ROI'), keep='first': of rows with equal ROI the one that
\* comes first in the table is taken first
nlargest(frame, n) ==
  FirstRows(StableSort(frame, FALSE), n)

\* nsmallest(n, 'ROI'), keep='first'
nsmallest(frame, n) ==
  FirstRows(StableSort(frame, TRUE), n)

\* optimal_df['RevenueIncrease'].sum()
total_increase(optimal_df) == SeriesSum(Column(optimal_df, "RevenueIncrease"))

\* (total_increase / metrics_df['TotalSpend'].sum()) * 100
RoiImprovement(increase, metrics_df) ==
  FMul(FDiv(increase, SeriesSum(IntColumn(metrics_df, "TotalSpend"))),
       Fin(Percent))

ChannelsOf(frame) == [i \in DOMAIN frame |-> frame[i].Channel]

generate_recommendations ==
  /\ channel_metrics' = results(df)
  /\ LET metrics_df == results(df)
         optimal_df == OptimizeValue(metrics_df, DefaultBudget)
     IN  ret' = IF OptimizeOutcome(metrics_df) = "KeyError"
                  THEN [op |-> "generate_recommendations",
                        outcome |-> "KeyError"]
                  ELSE [op |-> "generate_recommendations",
                        outcome |-> "returned",
                        value |-> optimal_df,
                        top_performers |-> ChannelsOf(nlargest(optimal_df, TopN)),
                        underperformers |->
                          ChannelsOf(nsmallest(optimal_df, BottomN)),
                        total_increase |-> total_increase(optimal_df),
                        roi_improvement |->
                          RoiImprovement(total_increase(optimal_df), metrics_df)]
  /\ UNCHANGED df

----------------------------------------------------------------------------
(* The analyzer *)

\* __init__: the table is loaded, the dictionary is empty
Init ==
  /\ df \in Tables
  /\ channel_metrics = <<>>
  /\ ret = [op |-> "__init__", outcome |-> "returned"]

Next ==
  \/ calculate_roi_metrics
  \/ \E budget \in Budgets : identify_optimization_opportunities(budget)
  \/ generate_recommendations

Spec == Init /\ [][Next]_vars

----------------------------------------------------------------------------
(* Vocabulary of the properties *)

AfterCalculate == ret.op = "calculate_roi_metrics"
AfterOptimize == ret.op = "identify_optimization_opportunities"
AfterGenerate == ret.op = "generate_recommendations"

\* a row of the table breaks a non-negativity constraint of a Record
HasNegativeField(t) ==
  \E i \in DOMAIN t :
    \/ t[i].Spend < 0
    \/ t[i].Clicks < 0
    \/ t[i].Conversions < 0
    \/ t[i].Impressions < 0

\* every record of the loaded table satisfies the constraints of a Record
ValidRecords == ~HasNegativeField(df)

\* the positions of the rows of df that belong to a channel
RecordsOf(c) == {i \in DOMAIN df : df[i].Channel = c}

\* the sum of a column of df over a set of positions
RECURSIVE SumOver(_, _)
SumOver(S, col) ==
  IF S = {} THEN 0
  ELSE LET i == CHOOSE j \in S : TRUE
       IN  df[i][col] + SumOver(S \ {i}, col)

\* the sum of a sequence of values by IEEE addition, no entry skipped
RECURSIVE PlainSum(_)
PlainSum(s) == IF s = <<>> THEN Fin(0) ELSE FAdd(s[1], PlainSum(Tail(s)))

\* the sum of roiPercent over a metrics mapping
RoiSum(metrics) == PlainSum([i \in DOMAIN metrics |-> metrics[i].ROI])

SpendSum(metrics) ==
  PlainSum([i \in DOMAIN metrics |-> Fin(metrics[i].TotalSpend)])

HasZeroSpendChannel(metrics) ==
  \E i \in DOMAIN metrics : metrics[i].TotalSpend = 0

\* the place of a channel identifier in ascending lexical order
ChannelRank(c) == CHOOSE i \in DOMAIN ChannelNames : ChannelNames[i] = c

\* row a is ranked before row b: by roiPercent, a tie by channel identifier
RankedBefore(a, b, ascending) ==
  \/ IF ascending THEN FGreater(b.ROI, a.ROI) ELSE FGreater(a.ROI, b.ROI)
  \/ a.ROI = b.ROI /\ ChannelRank(a.Channel) < ChannelRank(b.Channel)

\* the first n channel identifiers of a frame in that ranking
Selection(frame, n, ascending) ==
  LET m == IF Len(frame) < n THEN Len(frame) ELSE n
      At(k) == CHOOSE i \in DOMAIN frame :
                 Cardinality({j \in DOMAIN frame :
                                RankedBefore(frame[j], frame[i], ascending)})
                   = k - 1
  IN  [k \in 1..m |-> frame[At(k)].Channel]

----------------------------------------------------------------------------
(* Properties *)

\* C1: whenever the roiPercent values of the metrics (of valid records) sum
\* to zero, the empty mapping included, optimize returns no allocation: the
\* call ends in an error instead of a table computed by dividing by the zero
\* sum.
C1_ZeroRoiSumGivesNoAllocation ==
  (AfterOptimize /\ ValidRecords /\ RoiSum(channel_metrics) = Fin(0))
    => ret.outcome # "returned"

\* C2: whenever a record of the table has a negative spend, clicks,
\* conversions or impressions, aggregate ends in InvalidInputError and
\* returns no metrics.
C2_NegativeInputRejected ==
  (AfterCalculate /\ HasNegativeField(df))
    => ret.outcome = "InvalidInputError"

\* C3: in every channel that aggregate returns, a ratio with a zero
\* denominator is 0 and a ratio with a non-zero denominator has the value
\* of its formula.
C3_RatioPolicy ==
  AfterCalculate =>
    \A i \in DOMAIN ret.value :
      LET m == ret.value[i]
          gain == m.TotalRevenue - m.TotalSpend
      IN  /\ m.ROI = IF m.TotalSpend = 0 THEN Fin(0)
                     ELSE Norm(gain * Percent, m.TotalSpend)
          /\ m.ROMI = IF m.TotalSpend = 0 THEN Fin(0)
                      ELSE Norm(gain, m.TotalSpend)
          /\ m.CAC = IF m.Conversions = 0 THEN Fin(0)
                     ELSE Norm(m.TotalSpend, m.Conversions)
          /\ m.ConversionRate = IF m.Clicks = 0 THEN Fin(0)
                                ELSE Norm(m.Conversions * Percent, m.Clicks)

\* C4: when the roiPercent sum of the metrics (of valid records) is not zero
\* and a channel has totalSpend 0, optimize either ends in
\* DegenerateAllocationError or reports expectedRevenue = 0 for every such
\* channel.
C4_ZeroSpendExpectedRevenue ==
  (/\ AfterOptimize
   /\ ValidRecords
   /\ RoiSum(channel_metrics) # Fin(0)
   /\ HasZeroSpendChannel(channel_metrics))
    => \/ ret.outcome = "DegenerateAllocationError"
       \/ /\ ret.outcome = "returned"
          /\ \A i \in DOMAIN ret.value :
               ret.value[i].TotalSpend = 0
                 => ret.value[i].ExpectedRevenue = Fin(0)

\* C5: the result of optimize is that of optimizing the metrics of the
\* analyzer's (valid) records with the budget of the call, whether or not
\* aggregate was called before it.
C5_NoPrerequisiteState ==
  (AfterOptimize /\ ValidRecords) =>
    /\ ret.outcome = OptimizeOutcome(results(df))
    /\ ret.value = OptimizeValue(results(df), ret.budget)

\* C6: the mapping aggregate returns has exactly one entry for each channel
\* identifier that occurs in the records (none for no records, without
\* error), and each of the five totals of an entry is the sum of that field
\* over the records of its channel.
C6_KeysAndSums ==
  AfterCalculate =>
    /\ ret.outcome = "returned"
    /\ {ret.value[i].Channel : i \in DOMAIN ret.value}
         = {df[i].Channel : i \in DOMAIN df}
    /\ \A i, j \in DOMAIN ret.value :
         ret.value[i].Channel = ret.value[j].Channel => i = j
    /\ \A i \in DOMAIN ret.value :
         LET m == ret.value[i]
             S == RecordsOf(m.Channel)
         IN  /\ m.TotalSpend = SumOver(S, "Spend")
             /\ m.TotalRevenue = SumOver(S, "Revenue")
             /\ m.Conversions = SumOver(S, "Conversions")
             /\ m.Clicks = SumOver(S, "Clicks")
             /\ m.Impressions = SumOver(S, "Impressions")

\* a channel of two records was aggregated next to a channel of one
C6_Witness ==
  /\ AfterCalculate
  /\ \E c \in Channels : Cardinality(RecordsOf(c)) = 2
  /\ \E i \in DOMAIN ret.value : ret.value[i].TotalSpend = 2

\* C7: the top 3 and the bottom 2 that generate_recommendations lists (for
\* valid records) are the channels of highest and of lowest roiPercent,
\* channels of equal roiPercent in ascending order of their identifiers.
C7_SelectionTieBreak ==
  (AfterGenerate /\ ValidRecords /\ ret.outcome = "returned") =>
    /\ ret.top_performers = Selection(ret.value, TopN, FALSE)
    /\ ret.underperformers = Selection(ret.value, BottomN, TRUE)

\* C8: (for valid records) totalRevenueIncrease is the sum of revenueIncrease
\* over all channels, and the overall ROI improvement is
\* totalRevenueIncrease / sum(totalSpend) x 100, and 0 when that sum is 0.
C8_AggregateImpact ==
  (AfterGenerate /\ ValidRecords /\ ret.outcome = "returned") =>
    /\ ret.total_increase
         = PlainSum([i \in DOMAIN ret.value |-> ret.value[i].RevenueIncrease])
    /\ ret.roi_improvement
         = IF SpendSum(ret.value) = Fin(0) THEN Fin(0)
           ELSE FMul(FDiv(ret.total_increase, SpendSum(ret.value)),
                     Fin(Percent))

\* C9: with a single channel of positive roiPercent in the metrics, optimize
\* allocates exactly the budget of the call to it.
C9_SingleChannelGetsBudget ==
  (/\ AfterOptimize
   /\ Len(channel_metrics) = 1
   /\ FGreater(channel_metrics[1].ROI, Fin(0)))
    => /\ ret.outcome = "returned"
       /\ Len(ret.value) = 1
       /\ ret.value[1].OptimalAllocation = Fin(ret.budget)

\* a single channel of two records, roiPercent 300, optimized with the
\* default budget
C9_Witness ==
  /\ AfterOptimize
  /\ Len(channel_metrics) = 1
  /\ Len(df) = 2
  /\ channel_metrics[1].ROI = Fin(300)
  /\ ret.budget = DefaultBudget
  /\ ret.value[1].OptimalAllocation = Fin(DefaultBudget)

\* C10: every channel of the stored metrics has romi x 100 = roiPercent.
C10_RomiTimes100IsRoi ==
  \A i \in DOMAIN channel_metrics :
    FMul(channel_metrics[i].ROMI, Fin(Percent)) = channel_metrics[i].ROI

\* the stored metrics hold a channel without spend and a channel at a loss
C10_Witness ==
  \E i, j \in DOMAIN channel_metrics :
    /\ channel_metrics[i].TotalSpend = 0
    /\ channel_metrics[i].ROMI = Fin(0)
    /\ channel_metrics[j].TotalSpend > 0
    /\ Sign(channel_metrics[j].ROI) < 0

=============================================================================
